---- MODULE Spec2Model ----
(***************************************************************************)
(* Model of src/api/index.js: the chat-completion proxy handler.           *)
(*                                                                         *)
(* The file holds two definitions of `handler` (lines 1-145 and lines      *)
(* 151-316).  Both are modelled; `variant` says which one serves the       *)
(* request.  The first definition lacks the `if (stream) {` line that its  *)
(* indentation and its `} else {` (line 106) call for; it is modelled with *)
(* that line in place, the only reading under which it parses.             *)
(*                                                                         *)
(* One request is modelled from its arrival to its terminal response.      *)
(* Every action is one run of the handler between two suspension points    *)
(* (JavaScript runs a continuation to its next await without interleaving) *)
(* or one event of the environment (the timer expiring).                   *)
(***************************************************************************)
EXTENDS Integers, Sequences, FiniteSets, TLC

VARIABLES
    variant,     \* 1: handler of lines 1-145, 2: handler of lines 151-316
    req,         \* the inbound request: method and parsed body
    env,         \* process.env: the names of the variables that hold a value
    pc,          \* where the handler is suspended
    res,         \* the response object of the caller's connection
    timeout,     \* the timer of setTimeout: "unset", "armed", "cleared", "fired"
    controller,  \* the AbortController: [aborted]
    fetchCalls,  \* the outbound calls started, in order
    response,    \* the upstream response the fetch resolved with
    upstream,    \* the chunks reader.read() has delivered, in order
    decoder,     \* the TextDecoder's pending bytes (an unfinished sequence)
    caught       \* the exception the handler's catch blocks received, if any

vars == <<variant, req, env, pc, res, timeout, controller, fetchCalls,
          response, upstream, decoder, caught>>

-----------------------------------------------------------------------------
(* Bounds of the model *)

MaxBytes == 3       \* bytes the upstream body delivers at most, in any chunking

-----------------------------------------------------------------------------
(* Inputs *)

Methods == {"OPTIONS", "POST", "GET", "PUT"}

\* Model names a client may ask for: a public alias of the spec's table, a
\* name carrying the secondary provider's substring, and a name nobody knows.
Models == {"deepseek-r1", "secondary-chat", "my-finetune"}

\* The JavaScript value of body.stream: true, false or undefined (absent).
StreamVals == {"true", "false", "absent"}

Temperatures == {"0.7", "1"}

\* req.body is undefined when the request carries no parsed body.
UndefinedBody ==
    [defined |-> FALSE, model |-> "", stream |-> "absent", temperature |-> ""]

Bodies ==
    {UndefinedBody} \cup
    [defined : {TRUE}, model : Models, stream : StreamVals,
     temperature : Temperatures]

EnvNames == {"NVIDIA_API_KEY", "OTHER_API_KEY"}

\* Statuses an upstream may answer with.  204 is a null-body status: the
\* Response of such a status has body === null.
UpstreamStatuses == {200, 204, 401, 500, 503}

\* Bytes of an upstream chunk: an ASCII letter, the lead byte of a two-byte
\* UTF-8 sequence, and a continuation byte.
\* (0x41 'A', 0xC3 and 0xA9: 0xC3 0xA9 together encode U+00E9.)
Bytes == {65, 195, 169}

Chunks == UNION {[1..n -> Bytes] : n \in 1..MaxBytes}

\* The bytes of a sequence of chunks, chunk after chunk.
RECURSIVE Concat(_)
Concat(chunks) ==
    IF chunks = <<>> THEN <<>> ELSE Head(chunks) \o Concat(Tail(chunks))

\* What the upstream's error body parses to: not JSON at all, the JSON value
\* null, an object without `error`, an object with error.message.
ErrorBodies == {"unparsable", "null", "object", "withMessage"}

\* The text of the upstream's success body in non-streaming mode: not JSON,
\* or one of two texts of the same JSON document.
JsonBodies == {"unparsable", "{\"id\":\"cmpl-1\"}", "{ \"id\": \"cmpl-1\" }"}

\* What fetch rejects with when the call fails on the network; the second
\* is an exception that carries no message.
NetworkErrors ==
    { [name |-> "TypeError", message |-> "fetch failed"],
      [name |-> "Error", message |-> ""] }

-----------------------------------------------------------------------------
(* The response object: res.setHeader, res.status, res.write, res.end and   *)
(* res.json as the handler uses them.                                        *)

NoCode == [kind |-> "absent", num |-> 0, str |-> ""]
NumberCode(n) == [kind |-> "number", num |-> n, str |-> ""]
StringCode(s) == [kind |-> "string", num |-> 0, str |-> s]

\* Nothing sent as a body.
NoBody == [kind |-> "none", message |-> "", type |-> "", code |-> NoCode,
           data |-> ""]

\* {error: {message, type, code}}; code is left out when it is NoCode.
Envelope(message, type, code) ==
    [kind |-> "envelope", message |-> message, type |-> type, code |-> code,
     data |-> ""]

\* {error: 'Method not allowed'}: `error` is the string itself.
PlainError(message) ==
    [kind |-> "plainError", message |-> message, type |-> "", code |-> NoCode,
     data |-> ""]

\* The upstream's JSON document, handed on as it was parsed.
DataBody(data) ==
    [kind |-> "data", message |-> "", type |-> "", code |-> NoCode,
     data |-> data]

NoError == [message |-> "", type |-> ""]

\* One res.write: the bytes of a relayed chunk, or the synthetic error event.
RelayWrite(bytes) == [bytes |-> bytes, error |-> NoError]
EventWrite(message, type) ==
    [bytes |-> <<>>, error |-> [message |-> message, type |-> type]]

\* A fresh ServerResponse: statusCode 200, no header set, nothing sent, the
\* caller's connection open.
NewRes ==
    [status |-> 200, headers |-> {}, body |-> NoBody, written |-> <<>>,
     headersSent |-> FALSE, ended |-> FALSE, responses |-> 0,
     destroyed |-> FALSE]

SetHeader(r, name, value) ==
    [r EXCEPT !.headers = {h \in @ : h[1] # name} \cup {<<name, value>>}]

Status(r, code) == [r EXCEPT !.status = code]

\* res.write(chunk): the head goes out with the first write.  On a
\* connection the caller has closed the write fails without throwing; the
\* call is recorded all the same.
Write(r, w) ==
    [r EXCEPT !.written = Append(@, w), !.headersSent = TRUE]

\* res.end(): the response is complete.
End(r) ==
    [r EXCEPT !.headersSent = TRUE, !.ended = TRUE, !.responses = @ + 1]

\* res.json(body): a JSON body, sent whole.
Json(r, body) ==
    [SetHeader(r, "Content-Type", "application/json; charset=utf-8")
        EXCEPT !.body = body, !.headersSent = TRUE, !.ended = TRUE,
               !.responses = @ + 1]

corsHeaders ==
    { <<"Access-Control-Allow-Origin", "*">>,
      <<"Access-Control-Allow-Methods", "GET, POST, OPTIONS">>,
      <<"Access-Control-Allow-Headers",
        "Content-Type, Authorization, X-API-Key, User-Agent, X-Janitor-Client">>,
      <<"Access-Control-Max-Age", "86400">> }

\* Object.entries(corsHeaders).forEach(([key, value]) => res.setHeader(key, value))
RECURSIVE SetHeaders(_, _)
SetHeaders(r, hs) ==
    IF hs = {} THEN r
    ELSE LET h == CHOOSE x \in hs : TRUE
         IN  SetHeaders(SetHeader(r, h[1], h[2]), hs \ {h})

ApplyCors(r) == SetHeaders(r, corsHeaders)

-----------------------------------------------------------------------------
(* The request's way to the upstream: credential, base URL, payload.        *)

\* The routing the specification describes (its section 4.1); the handler
\* has no such table.  A model name carrying the secondary provider's
\* substring, that provider's base URL, and the alias table of the default
\* provider.
IsSecondaryModel(model) == model \in {"secondary-chat"}

SecondaryBase == "https://api.secondary.example/v1"

IsAlias(model) == model \in {"deepseek-r1"}

ProviderModel(model) ==
    IF model = "deepseek-r1" THEN "deepseek-ai/deepseek-r1" ELSE model

\* process.env[name]: the variable's value, undefined (here "") when unset.
EnvGet(e, name) ==
    IF name \notin e THEN ""
    ELSE IF name = "NVIDIA_API_KEY" THEN "nvidia-secret" ELSE "other-secret"

\* Faulty variant: the credential is read from the other variable
apiKey_otherVariable(e) == EnvGet(e, "OTHER_API_KEY")

\* const apiKey = process.env.NVIDIA_API_KEY
apiKey(e) == EnvGet(e, "NVIDIA_API_KEY")

\* Faulty variant: the base URL follows the model name
apiBase_routed(body) ==
    IF IsSecondaryModel(body.model) THEN SecondaryBase
    ELSE "https://integrate.api.nvidia.com/v1"

\* const apiBase = 'https://integrate.api.nvidia.com/v1'
apiBase(body) == "https://integrate.api.nvidia.com/v1"

\* Faulty variant: the payload is rebuilt and an unknown model falls back to the
\* default one
payload_defaultModel(body) ==
    IF body.defined /\ ~IsAlias(body.model)
    THEN [body EXCEPT !.model = "deepseek-r1"] ELSE body

\* Faulty variant: the payload's model is translated through the alias table
payload_translated(body) == [body EXCEPT !.model = ProviderModel(@)]

\* const payload = body
payload(body) == body

\* JSON.stringify(payload): the members that hold a value, in the body's
\* order, each as <<key, JSON text>>; undefined for an undefined payload
\* (fetch then sends no body), here the empty sequence with defined FALSE.
JSONstringify(p) ==
    IF ~p.defined THEN [defined |-> FALSE, members |-> <<>>]
    ELSE [defined |-> TRUE,
          members |->
              <<<<"model", p.model>>>>
              \o (IF p.stream = "absent" THEN <<>>
                  ELSE <<<<"stream", p.stream>>>>)
              \o <<<<"temperature", p.temperature>>>>]

\* response.json(): the document a body's text parses to ("" for a text
\* that is not JSON, where json() rejects).
JSONparse(text) ==
    IF text \in {"{\"id\":\"cmpl-1\"}", "{ \"id\": \"cmpl-1\" }"}
    THEN "object{id: cmpl-1}" ELSE ""

\* The value of member `key` of a JSON text, "" when it has none.
Member(json, key) ==
    IF \E i \in 1..Len(json.members) : json.members[i][1] = key
    THEN json.members[CHOOSE i \in 1..Len(json.members) :
                          json.members[i][1] = key][2]
    ELSE ""

\* The outbound call fetch() is given.
FetchRequest(e, body) ==
    [url |-> [base |-> apiBase(body), path |-> "/chat/completions"],
     method |-> "POST",
     authorization |-> [scheme |-> "Bearer", token |-> apiKey(e)],
     contentType |-> "application/json",
     body |-> JSONstringify(payload(body))]

\* Faulty variant: GET is let through, as Access-Control-Allow-Methods lists it
MethodGate_allowsGet(method) ==
    IF method = "OPTIONS" THEN "preflight"
    ELSE IF method \notin {"POST", "GET"} THEN "notAllowed"
    ELSE "proceed"

\* req.method against the two gates.
MethodGate(method) ==
    IF method = "OPTIONS" THEN "preflight"
    ELSE IF method # "POST" THEN "notAllowed"
    ELSE "proceed"

\* response.ok
Ok(status) == status >= 200 /\ status <= 299

\* response.body === null (the statuses that carry no body)
NullBody(status) == status \in {204, 205, 304}

\* Faulty variant: the relay runs only when stream is true
stream_onlyTrue(p) == p.stream = "true"

\* const stream = payload.stream !== false
stream(p) == p.stream # "false"

-----------------------------------------------------------------------------
(* TextDecoder.decode(value, {stream: true}) followed by res.write(string):  *)
(* the bytes are decoded as UTF-8 to code points, an unfinished sequence at  *)
(* the end of the chunk is kept for the next call, and the string is sent    *)
(* UTF-8 encoded.  Bytes 0xC2-0xDF lead a two-byte sequence, 0x80-0xBF       *)
(* continue one; longer sequences are outside the byte alphabet above.       *)

IsLead2(b) == b >= 194 /\ b <= 223
IsCont(b) == b >= 128 /\ b <= 191

RECURSIVE Decode(_, _, _)
Decode(pending, bytes, out) ==
    IF bytes = <<>> THEN [pending |-> pending, out |-> out]
    ELSE LET b == Head(bytes) IN
         IF pending = <<>>
         THEN IF b < 128 THEN Decode(<<>>, Tail(bytes), Append(out, b))
              ELSE IF IsLead2(b) THEN Decode(<<b>>, Tail(bytes), out)
              ELSE Decode(<<>>, Tail(bytes), Append(out, 65533))
         ELSE IF IsCont(b)
              THEN Decode(<<>>, Tail(bytes),
                          Append(out, (pending[1] - 192) * 64 + (b - 128)))
              \* a broken sequence yields U+FFFD and the byte is read again
              ELSE Decode(<<>>, bytes, Append(out, 65533))

\* The UTF-8 encoding of a string of code points.
RECURSIVE Utf8(_)
Utf8(cps) ==
    IF cps = <<>> THEN <<>>
    ELSE LET c == Head(cps) IN
         (IF c < 128 THEN <<c>>
          ELSE IF c < 2048 THEN <<192 + (c \div 64), 128 + (c % 64)>>
          ELSE <<224 + (c \div 4096), 128 + ((c \div 64) % 64), 128 + (c % 64)>>)
         \o Utf8(Tail(cps))

\* decoder.decode(value, {stream: true}): [pending, out] for the decoder's
\* pending bytes and the chunk read.
decode(pending, value) == Decode(pending, value, <<>>)

-----------------------------------------------------------------------------
(* Exceptions and the two catch blocks.                                      *)

AbortError == [name |-> "AbortError", message |-> "This operation was aborted"]
NoException == [name |-> "", message |-> ""]
SyntaxError == [name |-> "SyntaxError", message |-> "Unexpected end of JSON input"]
TypeErrorOf(what) == [name |-> "TypeError", message |-> what]

\* Faulty variant: the timer is left as it is
clearTimeout_noop(t) == t

\* clearTimeout(timeout): an armed timer is disarmed, any other is left.
clearTimeout(t) == IF t = "armed" THEN "cleared" ELSE t

\* Faulty variant: the abort is looked for under another name
IsAbortError_timeoutName(err) == err.name = "TimeoutError"

\* fetchError.name === 'AbortError'
IsAbortError(err) == err.name = "AbortError"

\* Faulty variant: the message is used as it is
MessageOf_noFallback(error) == error.message

\* error.message || 'Internal server error'
MessageOf(error) ==
    IF error.message # "" THEN error.message ELSE "Internal server error"

\* catch (error): the outer handler.  The first definition sets the CORS
\* headers here, the second has set them on entry.
OuterCatch(v, r, error) ==
    Json(Status(IF v = 1 THEN ApplyCors(r) ELSE r, 500),
         Envelope(MessageOf(error), "internal_error", NoCode))

\* catch (fetchError), after its clearTimeout: 504 for an abort, anything
\* else is thrown on to the outer handler.
CatchFetchError(v, r, fetchError) ==
    IF IsAbortError(fetchError)
    THEN Json(Status(r, 504),
              Envelope("Request timed out after 120 seconds", "timeout_error",
                       StringCode("timeout")))
    ELSE OuterCatch(v, r, fetchError)

-----------------------------------------------------------------------------
(* The headers each definition sets at each place.                           *)

\* On entry: the second definition applies corsHeaders to every response.
EntryHeaders(v, r) == IF v = 2 THEN ApplyCors(r) ELSE r

\* Preflight: the first definition sets the origin header alone.
PreflightHeaders(v, r) ==
    IF v = 1 THEN SetHeader(r, "Access-Control-Allow-Origin", "*") ELSE r

\* Before the relay: the event-stream headers, and in the first definition
\* corsHeaders.
StreamHeaders(v, r) ==
    LET r1 == SetHeader(r, "Content-Type", "text/event-stream")
        r2 == SetHeader(r1, "Cache-Control", "no-cache")
        r3 == SetHeader(r2, "Connection", "keep-alive")
        r4 == SetHeader(r3, "X-Accel-Buffering", "no")
    IN  IF v = 1 THEN ApplyCors(r4) ELSE r4

\* Before the non-streamed 200: corsHeaders in the first definition.
JsonHeaders(v, r) == IF v = 1 THEN ApplyCors(r) ELSE r

-----------------------------------------------------------------------------
(* The state machine.                                                        *)

\* The upstream response: its status, the state of its body stream ("none"
\* before there is a response, "null", "unread", "reading", "closed",
\* "errored") and the text json() read from it.
NoResponse == [received |-> FALSE, status |-> 0, body |-> "none", text |-> ""]

Init ==
    /\ variant \in {1, 2}
    /\ req \in [method : Methods, body : Bodies]
    /\ env \in SUBSET EnvNames
    /\ pc = "start"
    /\ res = NewRes
    /\ timeout = "unset"
    /\ controller = [aborted |-> FALSE]
    /\ fetchCalls = <<>>
    /\ response = NoResponse
    /\ upstream = <<>>
    /\ decoder = <<>>
    /\ caught = NoException

\* The handler from its entry to its first await: the method gates, the
\* credential check, then the timer and the outbound call.
HandleRequest ==
    /\ pc = "start"
    /\ LET r == EntryHeaders(variant, res)
           gate == MethodGate(req.method)
       IN  IF gate = "preflight"
           THEN /\ res' = End(PreflightHeaders(variant, Status(r, 204)))
                /\ pc' = "done"
                /\ UNCHANGED <<timeout, fetchCalls>>
           ELSE IF gate = "notAllowed"
           THEN /\ res' = Json(Status(r, 405), PlainError("Method not allowed"))
                /\ pc' = "done"
                /\ UNCHANGED <<timeout, fetchCalls>>
           ELSE IF apiKey(env) = ""
           THEN /\ res' = Json(Status(r, 500),
                               Envelope("NVIDIA_API_KEY not configured",
                                        "configuration_error", NoCode))
                /\ pc' = "done"
                /\ UNCHANGED <<timeout, fetchCalls>>
           ELSE /\ res' = r
                /\ timeout' = "armed"
                /\ fetchCalls' = Append(fetchCalls, FetchRequest(env, req.body))
                /\ pc' = "fetch"
    /\ UNCHANGED <<variant, req, env, controller, response, upstream, decoder,
                   caught>>

\* setTimeout's callback: () => controller.abort(), 120 s after it was armed.
TimerFires ==
    /\ timeout = "armed"
    /\ timeout' = "fired"
    /\ controller' = [aborted |-> TRUE]
    /\ UNCHANGED <<variant, req, env, pc, res, fetchCalls, response, upstream,
                   decoder, caught>>

\* The caller closes its connection while the request is in flight; the
\* handler listens for no such event.
ClientCloses ==
    /\ pc \in {"fetch", "errorJson", "read", "json"}
    /\ ~res.destroyed
    /\ res' = [res EXCEPT !.destroyed = TRUE]
    /\ UNCHANGED <<variant, req, env, pc, timeout, controller, fetchCalls,
                   response, upstream, decoder, caught>>

\* The upstream's response head arrives: fetch resolves, the timer is
\* cleared, and the handler runs to its next await.
FetchResolves(status) ==
    /\ pc = "fetch"
    /\ ~controller.aborted
    /\ timeout' = clearTimeout(timeout)
    /\ LET head == [received |-> TRUE, status |-> status,
                    body |-> IF NullBody(status) THEN "null" ELSE "unread",
                    text |-> ""]
       IN
       IF ~Ok(status)
       THEN /\ pc' = "errorJson"
            /\ res' = res
            /\ response' = head
            /\ caught' = caught
       ELSE IF ~req.body.defined
       THEN \* payload.stream of an undefined payload
            LET e == TypeErrorOf("Cannot read properties of undefined (reading 'stream')")
            IN  /\ res' = CatchFetchError(variant, res, e)
                /\ caught' = e
                /\ response' = head
                /\ pc' = "done"
       ELSE IF stream(payload(req.body))
       THEN IF NullBody(status)
            THEN \* response.body.getReader() of a null body
                 LET e == TypeErrorOf("Cannot read properties of null (reading 'getReader')")
                 IN  /\ res' = CatchFetchError(variant, StreamHeaders(variant, res), e)
                     /\ caught' = e
                     /\ response' = head
                     /\ pc' = "done"
            ELSE /\ res' = StreamHeaders(variant, res)
                 /\ response' = [head EXCEPT !.body = "reading"]
                 /\ caught' = caught
                 /\ pc' = "read"
       ELSE /\ res' = res
            /\ response' = head
            /\ caught' = caught
            /\ pc' = "json"
    /\ UNCHANGED <<variant, req, env, controller, fetchCalls, upstream, decoder>>

\* The controller has aborted: fetch rejects with an AbortError.
FetchAborted ==
    /\ pc = "fetch"
    /\ controller.aborted
    /\ timeout' = clearTimeout(timeout)
    /\ res' = CatchFetchError(variant, res, AbortError)
    /\ caught' = AbortError
    /\ pc' = "done"
    /\ UNCHANGED <<variant, req, env, controller, fetchCalls, response,
                   upstream, decoder>>

\* Faulty variant: the failed call is made again
FetchFails_retries(err) ==
    /\ pc = "fetch"
    /\ ~controller.aborted
    /\ fetchCalls' = Append(fetchCalls, FetchRequest(env, req.body))
    /\ caught' = err
    /\ UNCHANGED <<variant, req, env, pc, res, timeout, controller, response,
                   upstream, decoder>>

\* Faulty variant: the catch block does not clear the timer
FetchFails_keepsTimer(err) ==
    /\ pc = "fetch"
    /\ ~controller.aborted
    /\ res' = CatchFetchError(variant, res, err)
    /\ caught' = err
    /\ pc' = "done"
    /\ UNCHANGED <<variant, req, env, timeout, controller, fetchCalls,
                   response, upstream, decoder>>

\* The outbound call fails on the network: fetch rejects.
FetchFails(err) ==
    /\ pc = "fetch"
    /\ ~controller.aborted
    /\ timeout' = clearTimeout(timeout)
    /\ res' = CatchFetchError(variant, res, err)
    /\ caught' = err
    /\ pc' = "done"
    /\ UNCHANGED <<variant, req, env, controller, fetchCalls, response,
                   upstream, decoder>>

\* errorData.error?.message || 'API request failed', for what the error
\* body parsed to ({} stands in for a body that did not parse).
ErrorMessage(errorBody) ==
    IF errorBody = "withMessage" THEN "upstream says no"
    ELSE "API request failed"

\* await response.json().catch(() => ({})) settles on a non-2xx response.
ErrorJsonSettles(errorBody) ==
    /\ pc = "errorJson"
    /\ response' = [response EXCEPT !.body = "closed", !.text = errorBody]
    /\ IF errorBody = "null"
       THEN \* errorData.error of null
            LET e == TypeErrorOf("Cannot read properties of null (reading 'error')")
            IN  /\ res' = CatchFetchError(variant, res, e)
                /\ caught' = e
       ELSE /\ res' = Json(Status(res, response.status),
                           Envelope(ErrorMessage(errorBody), "api_error",
                                    NumberCode(response.status)))
            /\ caught' = caught
    /\ pc' = "done"
    /\ UNCHANGED <<variant, req, env, timeout, controller, fetchCalls,
                   upstream, decoder>>

\* reader.read() yields a chunk: it is decoded and written.
ReadChunk(value) ==
    /\ pc = "read"
    /\ Len(Concat(upstream)) + Len(value) <= MaxBytes
    /\ LET d == decode(decoder, value)
       IN  /\ decoder' = d.pending
           /\ res' = Write(res, RelayWrite(Utf8(d.out)))
    /\ upstream' = Append(upstream, value)
    /\ UNCHANGED <<variant, req, env, pc, timeout, controller, fetchCalls,
                   response, caught>>

\* reader.read() yields done: the loop breaks and the response is ended.
ReadDone ==
    /\ pc = "read"
    /\ response' = [response EXCEPT !.body = "closed"]
    /\ res' = End(res)
    /\ pc' = "done"
    /\ UNCHANGED <<variant, req, env, timeout, controller, fetchCalls,
                   upstream, decoder, caught>>

\* Faulty variant: the read failure is thrown on to the outer handlers
ReadFails_rethrows ==
    /\ pc = "read"
    /\ response' = [response EXCEPT !.body = "errored"]
    /\ res' = CatchFetchError(variant, res, TypeErrorOf("terminated"))
    /\ pc' = "done"
    /\ UNCHANGED <<variant, req, env, timeout, controller, fetchCalls,
                   upstream, decoder, caught>>

\* Faulty variant: the synthetic event is written and the response left open
ReadFails_noEnd ==
    /\ pc = "read"
    /\ response' = [response EXCEPT !.body = "errored"]
    /\ res' = Write(res, EventWrite("Stream interrupted", "stream_error"))
    /\ pc' = "done"
    /\ UNCHANGED <<variant, req, env, timeout, controller, fetchCalls,
                   upstream, decoder, caught>>

\* reader.read() rejects: catch (streamError).
ReadFails ==
    /\ pc = "read"
    /\ response' = [response EXCEPT !.body = "errored"]
    /\ res' = End(Write(res, EventWrite("Stream interrupted", "stream_error")))
    /\ pc' = "done"
    /\ UNCHANGED <<variant, req, env, timeout, controller, fetchCalls,
                   upstream, decoder, caught>>

\* await response.json() settles in non-streaming mode; a null body has no
\* text to parse.
JsonSettles(jsonBody) ==
    /\ pc = "json"
    /\ response.body = "null" => jsonBody = "unparsable"
    /\ response' = [response EXCEPT !.body = "closed", !.text = jsonBody]
    /\ IF JSONparse(jsonBody) = ""
       THEN /\ res' = CatchFetchError(variant, res, SyntaxError)
            /\ caught' = SyntaxError
       ELSE /\ res' = Json(Status(JsonHeaders(variant, res), 200),
                           DataBody(JSONparse(jsonBody)))
            /\ caught' = caught
    /\ pc' = "done"
    /\ UNCHANGED <<variant, req, env, timeout, controller, fetchCalls,
                   upstream, decoder>>

Next ==
    \/ HandleRequest
    \/ TimerFires
    \/ ClientCloses
    \/ \E status \in UpstreamStatuses : FetchResolves(status)
    \/ FetchAborted
    \/ \E err \in NetworkErrors : FetchFails(err)
    \/ \E errorBody \in ErrorBodies : ErrorJsonSettles(errorBody)
    \/ \E value \in Chunks : ReadChunk(value)
    \/ ReadDone
    \/ ReadFails
    \/ \E jsonBody \in JsonBodies : JsonSettles(jsonBody)

Spec == Init /\ [][Next]_vars

\* An armed timer expires unless it is cleared, and an aborted fetch rejects.
FairSpec == Spec /\ WF_vars(TimerFires) /\ WF_vars(FetchAborted)

TypeOK ==
    /\ variant \in {1, 2}
    /\ req \in [method : Methods, body : Bodies]
    /\ env \subseteq EnvNames
    /\ pc \in {"start", "fetch", "errorJson", "read", "json", "done"}
    /\ timeout \in {"unset", "armed", "cleared", "fired"}
    /\ controller \in [aborted : BOOLEAN]
    /\ Len(fetchCalls) \in 0..1
    /\ Len(Concat(upstream)) \in 0..MaxBytes
    /\ response.body \in {"none", "null", "unread", "reading", "closed", "errored"}
    /\ caught \in [name : STRING, message : STRING]

-----------------------------------------------------------------------------
(* Properties.                                                               *)

DefaultBase == "https://integrate.api.nvidia.com/v1"

KeyConfigured == "NVIDIA_API_KEY" \in env

\* The call the handler started, when it started one.
Sent == fetchCalls[1]

IsEventStream == <<"Content-Type", "text/event-stream">> \in res.headers

\* C1: every response the handler produces, on every path, carries the four
\* CORS headers with their documented values.
C1_EveryResponseCarriesCors ==
    res.headersSent => corsHeaders \subseteq res.headers

\* C2: a POST handled while NVIDIA_API_KEY is absent is answered 500
\* configuration_error, and at no point of it is an outbound call started,
\* a timer armed or an abort raised.
C2_MissingKeyIsConfigurationError ==
    (req.method = "POST" /\ ~KeyConfigured) =>
        /\ fetchCalls = <<>>
        /\ timeout = "unset"
        /\ ~controller.aborted
        /\ pc \in {"start", "done"}
        /\ pc = "done" =>
               /\ res.status = 500
               /\ res.body = Envelope("NVIDIA_API_KEY not configured",
                                      "configuration_error", NoCode)
               /\ res.responses = 1

C2_Witness ==
    /\ req.method = "POST" /\ ~KeyConfigured /\ pc = "done"
    /\ res.ended /\ res.status = 500

\* C3: a non-2xx upstream status is answered with that status and the
\* envelope {error: {message, type: 'api_error', code: status}}, whatever
\* the stream flag and whatever the error body, and no relay is started.
C3_UpstreamErrorIsApiError ==
    (pc = "done" /\ response.received /\ ~Ok(response.status)) =>
        /\ res.status = response.status
        /\ res.body.kind = "envelope"
        /\ res.body.type = "api_error"
        /\ res.body.code = NumberCode(response.status)
        /\ res.written = <<>>
        /\ ~IsEventStream

\* C4: once the timer has fired while the upstream's head is awaited, the
\* caller gets 504 timeout_error.
C4_TimeoutYields504 ==
    (timeout = "fired") ~>
        (/\ pc = "done"
         /\ controller.aborted
         /\ res.status = 504
         /\ res.body = Envelope("Request timed out after 120 seconds",
                                "timeout_error", StringCode("timeout")))

C4_Witness ==
    /\ timeout = "fired" /\ pc = "done" /\ res.status = 504
    /\ res.body.type = "timeout_error" /\ ~response.received

\* The relay ran to the upstream's done, with no read failure.
RelayCompleted ==
    /\ pc = "done" /\ res.ended /\ res.body = NoBody /\ IsEventStream
    /\ \A i \in 1..Len(res.written) : res.written[i].error = NoError

\* C5: in a streaming relay the chunks written to the caller are exactly
\* the chunks read from the upstream, in order, nothing added or dropped,
\* while the relay runs and when it has ended on the upstream's done.
C5_RelayIsExact ==
    ((pc = "read" /\ response.received) \/ RelayCompleted) =>
        res.written = [i \in 1..Len(upstream) |-> RelayWrite(upstream[i])]

\* C6: an OPTIONS request gets 204 with the CORS headers and no body, and
\* nothing else is done for it.
C6_PreflightIs204WithCors ==
    (req.method = "OPTIONS" /\ pc = "done") =>
        /\ res.status = 204
        /\ corsHeaders \subseteq res.headers
        /\ res.body = NoBody /\ res.written = <<>>
        /\ res.ended /\ res.responses = 1
        /\ fetchCalls = <<>> /\ timeout = "unset"

\* C7: a request whose method is neither POST nor OPTIONS gets 405 with
\* {error: 'Method not allowed'}, with or without the credential, and no
\* outbound call.
C7_OtherMethodsAre405 ==
    (req.method \notin {"POST", "OPTIONS"}) =>
        /\ fetchCalls = <<>>
        /\ timeout = "unset"
        /\ pc \in {"start", "done"}
        /\ pc = "done" =>
               /\ res.status = 405
               /\ res.body = PlainError("Method not allowed")
               /\ res.responses = 1

C7_Witness ==
    /\ req.method = "GET" /\ KeyConfigured /\ pc = "done"
    /\ res.ended /\ res.status = 405

\* C8: a POST whose model is no recognised name goes to the default
\* provider's base URL with its credential, its payload's model is the
\* requested name, and it is not turned away for its model.
C8_UnknownModelPassesThrough ==
    (/\ req.method = "POST" /\ req.body.defined /\ KeyConfigured
     /\ ~IsAlias(req.body.model) /\ ~IsSecondaryModel(req.body.model)
     /\ pc # "start") =>
        /\ Len(fetchCalls) = 1
        /\ Sent.url = [base |-> DefaultBase, path |-> "/chat/completions"]
        /\ Sent.authorization =
               [scheme |-> "Bearer", token |-> EnvGet(env, "NVIDIA_API_KEY")]
        /\ Member(Sent.body, "model") = req.body.model

C8_Witness ==
    /\ req.method = "POST" /\ req.body.defined
    /\ req.body.model = "my-finetune"
    /\ Len(fetchCalls) = 1 /\ pc = "done" /\ res.status = 200

OtherFieldsVerbatim ==
    /\ Member(Sent.body, "temperature") = req.body.temperature
    /\ Member(Sent.body, "stream") =
           (IF req.body.stream = "absent" THEN "" ELSE req.body.stream)

RECURSIVE Relayed(_, _)
Relayed(pending, chunks) ==
    IF chunks = <<>> THEN <<>>
    ELSE LET d == decode(pending, Head(chunks))
         IN  <<RelayWrite(Utf8(d.out))>> \o Relayed(d.pending, Tail(chunks))

StreamError == EventWrite("Stream interrupted", "stream_error")

\* C11: from the moment the relay reads the upstream body, no step changes
\* the status or the headers or sends a JSON body; what was written stays
\* written; the response is ended once, by the step that leaves the relay,
\* and nothing changes it after it is ended.
C11_RelayEndsOnceInBand ==
    [][ /\ pc = "read" =>
            /\ res'.status = 200 /\ res'.status = res.status
            /\ res'.headers = res.headers
            /\ res'.body = NoBody
            /\ Len(res'.written) >= Len(res.written)
            /\ SubSeq(res'.written, 1, Len(res.written)) = res.written
            /\ res'.ended = (pc' = "done")
            /\ res'.responses = (IF pc' = "done" THEN 1 ELSE 0)
            /\ caught' = NoException
        /\ res.ended => (res' = res /\ pc' = "done")
      ]_vars

C11_Witness ==
    /\ pc = "done" /\ response.body = "errored" /\ res.destroyed
    /\ Len(upstream) >= 2 /\ res.status = 200 /\ res.responses = 1
    /\ res.body = NoBody

\* C12: after a failed read the writes are those of the chunks relayed
\* before it, once each and in order, followed by the one synthetic event
\* {error: {message: 'Stream interrupted', type: 'stream_error'}}, and the
\* response is ended.
C12_ReadFailureWritesOneEvent ==
    (response.body = "errored") =>
        /\ pc = "done"
        /\ res.written = Append(Relayed(<<>>, upstream), StreamError)
        /\ Len(res.written) = Len(upstream) + 1
        /\ res.ended /\ res.responses = 1

C12_Witness ==
    /\ response.body = "errored" /\ Len(upstream) >= 1
    /\ res.written[Len(res.written)] = StreamError /\ res.ended

\* C13: the timer is disarmed once the upstream's head is received, it
\* fires only while the head is awaited, and the caller gets at most one
\* response, a fired timer included.
C13_TimerNeverCompetes ==
    /\ res.responses <= 1
    /\ response.received => (timeout = "cleared" /\ ~controller.aborted)
    /\ timeout = "fired" =>
           /\ ~response.received
           /\ pc \in {"fetch", "done"}
           /\ pc = "done" => (res.status = 504 /\ res.responses = 1)

C13_Witness ==
    /\ timeout = "fired" /\ pc = "done" /\ caught = AbortError
    /\ res.ended /\ res.responses = 1

\* C14 as stated: a relay whose upstream stalls after the head is ended by
\* the timer: from the relay the request always reaches its end.
C14_StalledRelayTimesOut == (pc = "read") ~> (pc = "done")

\* C14 amended: the timer covers the wait for the head only: while the body
\* is read the timer is cleared and the controller not aborted, so no
\* expiry can end a stalled relay.
C14_TimerCoversHeadOnly ==
    (pc \in {"errorJson", "read", "json"}) =>
        /\ timeout = "cleared"
        /\ ~controller.aborted
        /\ ~ENABLED TimerFires

C14_Witness ==
    /\ pc = "read" /\ Len(upstream) >= 1 /\ timeout = "cleared"
    /\ ~res.ended

\* C15: a request starts at most one outbound call; after a failure of or
\* after the call there is still that one call, and the request's end is
\* one response to the caller.
C15_AtMostOneCall ==
    /\ Len(fetchCalls) <= 1
    /\ (caught # NoException \/ response.received) => Len(fetchCalls) = 1
    /\ (pc = "done" /\ fetchCalls # <<>>) => (res.ended /\ res.responses = 1)

C15_Witness ==
    /\ pc = "done" /\ caught = [name |-> "TypeError", message |-> "fetch failed"]
    /\ Len(fetchCalls) = 1 /\ res.status = 500

\* C16: an exception that is no timer abort ends the request with 500
\* internal_error carrying the exception's message, or 'Internal server
\* error' when it has none.
C16_OtherFailuresAreInternalError ==
    (caught # NoException /\ caught.name # "AbortError") =>
        /\ pc = "done"
        /\ res.status = 500
        /\ res.body = Envelope(IF caught.message = ""
                               THEN "Internal server error"
                               ELSE caught.message,
                               "internal_error", NoCode)
        /\ res.ended /\ res.responses = 1

C16_Witness ==
    /\ pc = "done" /\ caught = [name |-> "Error", message |-> ""]
    /\ res.status = 500 /\ res.body.message = "Internal server error"

\* The upstream answered 2xx to a request that has a body.
OkHead == response.received /\ Ok(response.status) /\ req.body.defined

\* C17: on a 2xx answer the relay runs unless body.stream is false, an
\* absent stream included; when it is false no event-stream header is set,
\* nothing is written in chunks and the upstream's JSON document is sent
\* with 200.
C17_StreamFieldDecidesMode ==
    /\ (OkHead /\ req.body.stream # "false" /\ response.body # "null") =>
           /\ pc \in {"read", "done"}
           /\ IsEventStream
           /\ res.body = NoBody
           /\ res.status = 200
           /\ Len(res.written) >= Len(upstream)
    /\ (OkHead /\ req.body.stream = "false") =>
           /\ pc \in {"json", "done"}
           /\ ~IsEventStream
           /\ <<"Cache-Control", "no-cache">> \notin res.headers
           /\ res.written = <<>> /\ upstream = <<>>
           /\ (pc = "done" /\ JSONparse(response.text) # "") =>
                  /\ res.status = 200
                  /\ res.body = DataBody(JSONparse(response.text))
    /\ (pc = "read" \/ upstream # <<>>) =>
           (req.body.defined /\ req.body.stream # "false")

C17_Witness ==
    /\ OkHead /\ req.body.stream = "absent" /\ pc = "done"
    /\ IsEventStream /\ response.body = "closed" /\ Len(res.written) >= 1

\* C18: when a request that armed the timer has its terminal response, the
\* timer is no longer armed: it was cleared, or it has fired and its abort
\* has been answered.
C18_NoTimerOutlivesRequest ==
    /\ (pc = "done" \/ res.ended) => timeout # "armed"
    /\ (pc = "done" /\ fetchCalls # <<>>) =>
           /\ timeout \in {"cleared", "fired"}
           /\ controller.aborted = (timeout = "fired")
           /\ controller.aborted => caught = AbortError

C18_Witness ==
    /\ pc = "done" /\ fetchCalls # <<>> /\ timeout = "cleared"
    /\ caught = SyntaxError /\ res.ended

=============================================================================
